---- MODULE Spec2Model ----
(***************************************************************************)
(* Model of the two entry points of the RAG sample:                        *)
(*   install.ts  - ingestion: load ./book/*.md, split, embed, store        *)
(*   app.ts      - query: open the existing collection, build the chain,   *)
(*                 answer four fixed questions                             *)
(* A string is modelled as a sequence of string fragments, so that         *)
(* concatenation, join, endsWith, path.join and path.basename are computed *)
(* on the characters and not assumed.                                      *)
(***************************************************************************)
EXTENDS Integers, Sequences, FiniteSets, TLC

VARIABLES
    program,     \* which entry point this process runs: "install" or "app"
    pc,          \* position of main / setupRag / queryRag
    dirListing,  \* what fs.readdirSync(MARKDOWN_DIR) returns, in listing order
    files,       \* install.ts: const files (filtered, joined paths)
    fileIdx,     \* install.ts: position of the for..of loop over files
    documents,   \* install.ts: const documents
    splitDocs,   \* install.ts: const splitDocs
    vectors,     \* embeddings computed so far by embedDocuments
    collection,  \* the Chroma collection COLLECTION_NAME: a set of entries
    collBefore,  \* the collection's contents when the current run started
    nextId,      \* source of fresh entry identifiers
    runs,        \* how many times the entry point has been run
    prevRun,     \* outcome of the previous ingestion run
    started,     \* ingestion stages started in the current run, in order
    thrown,      \* the error a stage raised, NoError if none
    rethrown,    \* the error that left setupRag / reached main().catch
    ragChain,    \* the chain setupRag returned, FALSE if none
    qIdx,        \* app.ts: which of the four questions main is at
    question,    \* app.ts: the question given to queryRag
    retrQuery,   \* app.ts: the string given to retriever.invoke
    docs,        \* app.ts: const docs (the retrieval result)
    chainInput,  \* app.ts: output of the first chain step {context, question}
    prompt,      \* app.ts: the rendered prompt
    llmOut,      \* app.ts: the text the language model produced
    response,    \* app.ts: what queryRag returned last
    answers,     \* app.ts: the values queryRag returned, in order
    log          \* app.ts: query stages executed, as <<question index, stage>>

vars == <<program, pc, dirListing, files, fileIdx, documents, splitDocs, vectors,
          collection, collBefore, nextId, runs, prevRun, started, thrown,
          rethrown, ragChain, qIdx, question, retrQuery, docs, chainInput,
          prompt, llmOut, response, answers, log>>

installVars == <<dirListing, files, fileIdx, documents, splitDocs, vectors,
                 collBefore, nextId, runs, prevRun, started>>

appVars == <<qIdx, question, retrQuery, docs, chainInput, prompt, llmOut,
             response, answers, log>>

-----------------------------------------------------------------------------
(* Bounds of the model *)

MaxFiles == 2        \* longest directory listing
MaxRuns == 2         \* how many times install.ts is run in a row
MaxEntries == 6      \* size of the universe of entries an existing collection holds

-----------------------------------------------------------------------------
(* Strings *)

Range(s) == {s[i] : i \in 1..Len(s)}

RECURSIVE Concat(_)
\* Concatenation of a sequence of strings
Concat(ss) == IF ss = <<>> THEN <<>> ELSE Head(ss) \o Concat(Tail(ss))

\* String.prototype.endsWith
EndsWith(s, suffix) ==
    /\ Len(s) >= Len(suffix)
    /\ SubSeq(s, Len(s) - Len(suffix) + 1, Len(s)) = suffix

\* String.prototype.startsWith
StartsWith(s, prefix) ==
    /\ Len(s) >= Len(prefix)
    /\ SubSeq(s, 1, Len(prefix)) = prefix

RECURSIVE JoinFrom(_, _, _)
JoinFrom(ss, sep, i) ==
    IF i > Len(ss) THEN <<>>
    ELSE IF i = Len(ss) THEN ss[i]
    ELSE ss[i] \o sep \o JoinFrom(ss, sep, i + 1)

\* A join that also puts the separator after the last element
JoinTrailing(ss, sep) == Concat([i \in 1..Len(ss) |-> ss[i] \o sep])

\* Array.prototype.join: the separator between elements only, "" for []
Join(ss, sep) == JoinFrom(ss, sep, 1)

-----------------------------------------------------------------------------
(* Configuration (install.ts 13-20, app.ts 13-20) *)

MARKDOWN_DIR == <<".", "/", "b", "o", "o", "k">>
MdExt == <<".", "m", "d">>
Slash == <<"/">>

-----------------------------------------------------------------------------
(* Paths *)

\* path.normalize as far as path.join needs it here: a leading "./" is dropped
Normalize(p) == IF StartsWith(p, <<".", "/">>) THEN SubSeq(p, 3, Len(p)) ELSE p

\* path.join(dir, file)
PathJoin(dir, file) == Normalize(dir \o Slash \o file)

\* index of the last "/" of p, 0 if none
LastSlash(p) ==
    LET S == {i \in 1..Len(p) : p[i] = "/"}
    IN IF S = {} THEN 0 ELSE CHOOSE i \in S : \A j \in S : j <= i

\* path.basename(p)
Basename(p) == SubSeq(p, LastSlash(p) + 1, Len(p))

-----------------------------------------------------------------------------
(* The file system: entry names of ./book and the content of each entry.   *)
(* A content is the sequence of pieces the text splitter cuts it into.     *)

NameA == <<"a", ".", "m", "d">>
NameB == <<"b", ".", "m", "d">>
NameDot == <<".", "m", "d">>
NameTxt == <<"n", ".", "t", "x", "t">>
NameMdx == <<"c", ".", "m", "d", "x">>

EntryNames == {NameA, NameB, NameDot, NameTxt, NameMdx}

FileContent(name) ==
    IF name = NameA THEN << <<"Alice was beginning">>, <<"Down the rabbit hole">> >>
    ELSE IF name = NameB THEN << <<"The Cheshire Cat">> >>
    ELSE IF name = NameDot THEN << >>
    ELSE << <<"not markdown">> >>

RECURSIVE Listings(_)
\* the directory listings of at most n distinct entries
Listings(n) ==
    IF n = 0 THEN {<<>>}
    ELSE LET L == Listings(n - 1)
         IN L \cup {Append(l, x) : <<l, x>> \in
                      {y \in L \X EntryNames : y[2] \notin Range(y[1])}}

-----------------------------------------------------------------------------
(* Errors: the object a stage throws.  origin is the stage whose call      *)
(* raised it (what its stack and message show), cause is its kind.         *)

NoError == [origin |-> "none", cause |-> "none"]
Err(origin, cause) == [origin |-> origin, cause |-> cause]

Stages == <<"Loader", "Chunker", "Embedder", "Store">>


-----------------------------------------------------------------------------
(* The embedding service: one vector per text, a function of the text.     *)

FragCode(f) ==
    CASE f = "1" -> 1 [] f = "2" -> 2 [] f = "3" -> 3 [] f = "4" -> 4
      [] f = "5" -> 5 [] f = "6" -> 6 [] f = "7" -> 7 [] f = "8" -> 8
      [] f = "Alice was beginning" -> 1
      [] f = "Down the rabbit hole" -> 5
      [] f = "The Cheshire Cat" -> 7
      [] f = "Who is the main character ?" -> 1
      [] f = "Who is the anti-protagonist ?" -> 4
      [] f = "Which places did Alice visit?" -> 5
      [] f = "What is the cat name ?" -> 7
      [] OTHER -> 0

RECURSIVE TextCode(_)
TextCode(t) == IF t = <<>> THEN 0 ELSE FragCode(Head(t)) + TextCode(Tail(t))

\* embeddings.embedQuery / one element of embeddings.embedDocuments
EmbedText(t) == <<TextCode(t) % 3, (TextCode(t) \div 3) % 3>>

-----------------------------------------------------------------------------
(* install.ts: processMarkdownFiles *)

\* String.prototype.includes
Includes(s, sub) ==
    \E i \in 1..Len(s) : i + Len(sub) - 1 <= Len(s) /\ SubSeq(s, i, i + Len(sub) - 1) = sub

\* a filter by file.includes('.md') in place of file.endsWith('.md')
MarkdownFilesIncludes(listing) ==
    LET kept == SelectSeq(listing, LAMBDA f : Includes(f, MdExt))
    IN [i \in 1..Len(kept) |-> PathJoin(MARKDOWN_DIR, kept[i])]

\* .filter(file => file.endsWith('.md')).map(file => path.join(MARKDOWN_DIR, file))
MarkdownFiles(listing) ==
    LET kept == SelectSeq(listing, LAMBDA f : EndsWith(f, MdExt))
    IN [i \in 1..Len(kept) |-> PathJoin(MARKDOWN_DIR, kept[i])]

\* new Document({pageContent, metadata: {source: fileName, filePath: file}})
NewDocument(file, content) ==
    [pageContent |-> content,
     metadata |-> [source |-> Basename(file), filePath |-> file]]

\* the chunks of one document: its pieces in order, each with the parent's metadata
ChunksOf(doc) ==
    [j \in 1..Len(doc.pageContent) |->
        [pageContent |-> doc.pageContent[j], metadata |-> doc.metadata, loc |-> j]]

\* textSplitter.splitDocuments(documents): document order, then chunk position
SplitDocuments(ds) == Concat([i \in 1..Len(ds) |-> ChunksOf(ds[i])])

\* a catch block that throws a new error in place of the one it caught
InstallRethrowGeneric(error) == Err("setupRag", "setup failed")

\* the catch block of setupRag in install.ts: logs, then throws the error it caught
InstallRethrow(error) == error

\* a stage of the ingestion run throws e: control reaches the catch block of
\* setupRag, which rethrows, and main's promise rejects
InstallFail(e) ==
    /\ thrown' = e
    /\ rethrown' = InstallRethrow(e)
    /\ pc' = "failed"

\* readdirSync, filter, map: the Loader starts
ReadDir ==
    /\ program = "install" /\ pc = "start"
    /\ started' = Append(started, "Loader")
    /\ \/ /\ files' = MarkdownFiles(dirListing)
          /\ fileIdx' = 1
          /\ pc' = "read"
          /\ UNCHANGED <<thrown, rethrown>>
       \/ /\ \E c \in {"scandir:ENOENT", "scandir:EACCES"} : InstallFail(Err("Loader", c))
          /\ UNCHANGED <<files, fileIdx>>
    /\ UNCHANGED <<program, dirListing, documents, splitDocs, vectors, collection,
                   collBefore, nextId, runs, prevRun, ragChain>>
    /\ UNCHANGED appVars

\* one iteration of the for..of loop: readFileSync and documents.push
ReadFile ==
    /\ program = "install" /\ pc = "read" /\ fileIdx <= Len(files)
    /\ \/ /\ documents' = Append(documents,
                 NewDocument(files[fileIdx], FileContent(Basename(files[fileIdx]))))
          /\ fileIdx' = fileIdx + 1
          /\ UNCHANGED <<pc, thrown, rethrown>>
       \/ /\ \E c \in {"read:EISDIR", "open:EACCES"} : InstallFail(Err("Loader", c))
          /\ UNCHANGED <<documents, fileIdx>>
    /\ UNCHANGED <<program, dirListing, files, splitDocs, vectors, collection,
                   collBefore, nextId, runs, prevRun, started, ragChain>>
    /\ UNCHANGED appVars

\* a splitter that is started while the loop over the files is still running
SplitEarly ==
    /\ program = "install" /\ pc = "read"
    /\ started' = Append(started, "Chunker")
    /\ splitDocs' = SplitDocuments(documents)
    /\ pc' = "embed"
    /\ UNCHANGED <<program, dirListing, files, fileIdx, documents, vectors, collection,
                   collBefore, nextId, runs, prevRun, ragChain, thrown, rethrown>>
    /\ UNCHANGED appVars

\* await textSplitter.splitDocuments(documents): the Chunker starts when the loop is over
Split ==
    /\ program = "install" /\ pc = "read" /\ fileIdx > Len(files)
    /\ started' = Append(started, "Chunker")
    /\ \/ /\ splitDocs' = SplitDocuments(documents)
          /\ pc' = "embed"
          /\ UNCHANGED <<thrown, rethrown>>
       \/ /\ InstallFail(Err("Chunker", "split"))
          /\ UNCHANGED splitDocs
    /\ UNCHANGED <<program, dirListing, files, fileIdx, documents, vectors, collection,
                   collBefore, nextId, runs, prevRun, ragChain>>
    /\ UNCHANGED appVars

-----------------------------------------------------------------------------
(* install.ts: createVectorStore = Chroma.fromDocuments(documents, embeddings, cfg): *)
(* embeds every chunk text, then adds all vectors to the collection in one upsert    *)
(* under identifiers it generates itself (the call passes none).                     *)

\* an embedding step that writes each entry as soon as its vector is there
CollectionWrittenWhileEmbedding(coll, entry) == coll \cup {entry}

\* what embedding a chunk does to the collection: nothing
CollectionWhileEmbedding(coll, entry) == coll

\* the identifiers of n entries added now: fresh ones
NewIds(n) == [i \in 1..n |-> nextId + i - 1]

\* the entries written for chunks cs with vectors vs
NewEntries(cs, vs) ==
    {[id |-> NewIds(Len(cs))[i], pageContent |-> cs[i].pageContent,
      metadata |-> cs[i].metadata, embedding |-> vs[i]] : i \in 1..Len(cs)}

\* the embedding of the next chunk text; the Embedder starts with the first
EmbedChunk ==
    /\ program = "install" /\ pc = "embed" /\ Len(vectors) < Len(splitDocs)
    /\ started' = IF vectors = <<>> THEN Append(started, "Embedder") ELSE started
    /\ LET c == splitDocs[Len(vectors) + 1]
           v == EmbedText(c.pageContent)
       IN \/ /\ vectors' = Append(vectors, v)
             /\ collection' = CollectionWhileEmbedding(collection,
                    [id |-> nextId + Len(vectors), pageContent |-> c.pageContent,
                     metadata |-> c.metadata, embedding |-> v])
             /\ UNCHANGED <<pc, thrown, rethrown>>
          \/ /\ \E k \in {"network", "response"} : InstallFail(Err("Embedder", k))
             /\ UNCHANGED <<vectors, collection>>
    /\ UNCHANGED <<program, dirListing, files, fileIdx, documents, splitDocs,
                   collBefore, nextId, runs, prevRun, ragChain>>
    /\ UNCHANGED appVars

\* addVectors: nothing to add when there are no vectors, else one upsert of all
AddVectors ==
    /\ program = "install" /\ pc = "embed" /\ Len(vectors) = Len(splitDocs)
    /\ \/ /\ vectors = <<>>
          /\ pc' = "pipeline"
          /\ UNCHANGED <<collection, nextId, started, thrown, rethrown>>
       \/ /\ vectors # <<>>
          /\ started' = Append(started, "Store")
          /\ \/ /\ collection' = collection \cup NewEntries(splitDocs, vectors)
                /\ nextId' = nextId + Len(splitDocs)
                /\ pc' = "pipeline"
                /\ UNCHANGED <<thrown, rethrown>>
             \/ /\ \E k \in {"network", "response"} : InstallFail(Err("Store", k))
                /\ UNCHANGED <<collection, nextId>>
    /\ UNCHANGED <<program, dirListing, files, fileIdx, documents, splitDocs, vectors,
                   collBefore, runs, prevRun, ragChain>>
    /\ UNCHANGED appVars

\* createRagPipeline(vectorStore), then setupRag returns the chain to main
InstallCreateRagPipeline ==
    /\ program = "install" /\ pc = "pipeline"
    /\ ragChain' = TRUE
    /\ pc' = "done"
    /\ UNCHANGED <<program, collection, thrown, rethrown>>
    /\ UNCHANGED installVars
    /\ UNCHANGED appVars

\* `bun install.ts` is run again, against the same directory and collection
RunAgain ==
    /\ program = "install" /\ pc \in {"done", "failed"} /\ runs < MaxRuns
    /\ runs' = runs + 1
    /\ prevRun' = [outcome |-> pc, chunks |-> splitDocs,
                   count |-> Cardinality(collection)]
    /\ pc' = "start"
    /\ files' = <<>> /\ fileIdx' = 1 /\ documents' = <<>> /\ splitDocs' = <<>>
    /\ vectors' = <<>> /\ started' = <<>>
    /\ collBefore' = collection
    /\ thrown' = NoError /\ rethrown' = NoError /\ ragChain' = FALSE
    /\ UNCHANGED <<program, dirListing, collection, nextId>>
    /\ UNCHANGED appVars

NextInstall ==
    \/ ReadDir \/ ReadFile \/ Split \/ EmbedChunk \/ AddVectors
    \/ InstallCreateRagPipeline \/ RunAgain

-----------------------------------------------------------------------------
(* The existing collection app.ts opens: any subset of a universe of       *)
(* entries of the shape install.ts writes.                                 *)

PassageText(i) == <<"passage ", ToString(i)>>

UniverseEntry(i) ==
    LET name == IF i % 2 = 1 THEN NameA ELSE NameB
    IN [id |-> i, pageContent |-> PassageText(i),
        metadata |-> [source |-> name, filePath |-> PathJoin(MARKDOWN_DIR, name)],
        embedding |-> EmbedText(PassageText(i))]

EntryUniverse == {UniverseEntry(i) : i \in 1..MaxEntries}

-----------------------------------------------------------------------------
(* createRagPipeline (app.ts 44-84, the same text in install.ts 100-140)   *)

\* k: 5, the number of documents to retrieve
RetrieverK == 5

\* squared L2 distance of two vectors; a smaller distance is a higher similarity
Distance(u, v) == (u[1] - v[1]) * (u[1] - v[1]) + (u[2] - v[2]) * (u[2] - v[2])

\* the entry of coll nearest to qv, the older entry first among equals
Nearest(coll, qv) ==
    CHOOSE e \in coll : \A f \in coll :
        \/ Distance(qv, e.embedding) < Distance(qv, f.embedding)
        \/ /\ Distance(qv, e.embedding) = Distance(qv, f.embedding)
           /\ e.id <= f.id

RECURSIVE NearestK(_, _, _)
\* the nearest-neighbour query of the store: up to k entries, nearest first
NearestK(coll, qv, k) ==
    IF k = 0 \/ coll = {} THEN <<>>
    ELSE LET e == Nearest(coll, qv)
         IN <<e>> \o NearestK(coll \ {e}, qv, k - 1)

\* a retriever that returns every entry, nearest first
RetrieverInvokeAll(coll, q) ==
    LET es == NearestK(coll, EmbedText(q), Cardinality(coll))
    IN [i \in 1..Len(es) |-> [pageContent |-> es[i].pageContent,
                              metadata |-> es[i].metadata]]

\* retriever.invoke(question): embed the query, ask the store for the k nearest,
\* return them as Documents
RetrieverInvoke(coll, q) ==
    LET es == NearestK(coll, EmbedText(q), RetrieverK)
    IN [i \in 1..Len(es) |-> [pageContent |-> es[i].pageContent,
                              metadata |-> es[i].metadata]]

\* `Source: ${doc.metadata.source}\n${doc.pageContent}`
FormattedDoc(doc) == <<"Source: ">> \o doc.metadata.source \o <<"\n">> \o doc.pageContent

\* docs.map(...).join('\n\n') with the separator also after the last block
FormatContextTrailing(ds) ==
    JoinTrailing([i \in 1..Len(ds) |-> FormattedDoc(ds[i])], <<"\n\n">>)

\* docs.map(...).join('\n\n') with a placeholder when nothing was retrieved
FormatContextPlaceholder(ds) ==
    IF ds = <<>> THEN <<"(no context)">>
    ELSE Join([i \in 1..Len(ds) |-> FormattedDoc(ds[i])], <<"\n\n">>)

\* docs.map(...).join('\n\n')
FormatContext(ds) == Join([i \in 1..Len(ds) |-> FormattedDoc(ds[i])], <<"\n\n">>)

\* the template text, cut at its two slots
PromptTemplate ==
    << <<"lit", <<"\n      Answer the question based on the following context:\n      \n      Context: ">> >>,
       <<"slot", "context">>,
       <<"lit", <<"\n      \n      Question: ">> >>,
       <<"slot", "question">>,
       <<"lit", <<"\n      \n      Answer:\n    ">> >> >>

\* promptTemplate.format(values): literals as they are, each slot by its value
FormatPrompt(values) ==
    Concat([i \in 1..Len(PromptTemplate) |->
              IF PromptTemplate[i][1] = "lit" THEN PromptTemplate[i][2]
              ELSE values[PromptTemplate[i][2]]])

\* an output parser that trims white space at both ends
ParseOutputTrimmed(out) ==
    LET White == {" ", "\n"}
        a == IF out # <<>> /\ Head(out) \in White THEN Tail(out) ELSE out
    IN IF a # <<>> /\ a[Len(a)] \in White THEN SubSeq(a, 1, Len(a) - 1) ELSE a

\* new StringOutputParser(): the text of the model's output, as it is
ParseOutput(out) == out

-----------------------------------------------------------------------------
(* app.ts: main, setupRag, queryRag *)

\* the four questions of main, in their order
Questions ==
    << <<"Who is the main character ?">>, <<"Who is the anti-protagonist ?">>,
       <<"Which places did Alice visit?">>, <<"What is the cat name ?">> >>

\* what the language model may answer
ModelOutputs == { <<" ", "Alice", "\n">>, <<"The Cheshire Cat">> }

\* the catch block of setupRag in app.ts: logs, then throws the error it caught
AppRethrow(error) == error

\* an error thrown inside ragChain.invoke: queryRag and main have no handler, the
\* rejection reaches main().catch as it is and the remaining statements of main
\* are not executed
QueryFail(e) ==
    /\ thrown' = e
    /\ rethrown' = e
    /\ pc' = "failed"

\* Chroma.fromExistingCollection(embeddings, cfg)
GetDataVectorStor ==
    /\ program = "app" /\ pc = "start"
    /\ \/ /\ pc' = "pipeline"
          /\ UNCHANGED <<thrown, rethrown>>
       \/ \E k \in {"network", "response"} :
              /\ thrown' = Err("Store", k)
              /\ rethrown' = AppRethrow(Err("Store", k))
              /\ pc' = "failed"
    /\ UNCHANGED <<program, collection, ragChain>>
    /\ UNCHANGED installVars
    /\ UNCHANGED appVars

\* createRagPipeline(vectorStore), then setupRag returns the chain to main
AppCreateRagPipeline ==
    /\ program = "app" /\ pc = "pipeline"
    /\ ragChain' = TRUE
    /\ pc' = "ready"
    /\ UNCHANGED <<program, collection, thrown, rethrown>>
    /\ UNCHANGED installVars
    /\ UNCHANGED appVars

\* a main that does not await queryRag: the next call is made while one is running
QueryRagUnawaited ==
    /\ program = "app" /\ pc \in {"ready", "retrieve"} /\ qIdx <= Len(Questions)
    /\ Len(log) < 5 * Len(Questions)
    /\ question' = Questions[qIdx]
    /\ pc' = "retrieve"
    /\ log' = Append(log, <<qIdx, "call">>)
    /\ UNCHANGED <<program, collection, thrown, rethrown, ragChain, qIdx, retrQuery,
                   docs, chainInput, prompt, llmOut, response, answers>>
    /\ UNCHANGED installVars

\* main calls queryRag(ragChain, Questions[qIdx]), which calls ragChain.invoke({question})
QueryRag ==
    /\ program = "app" /\ pc = "ready" /\ qIdx <= Len(Questions)
    /\ question' = Questions[qIdx]
    /\ pc' = "retrieve"
    /\ log' = Append(log, <<qIdx, "call">>)
    /\ UNCHANGED <<program, collection, thrown, rethrown, ragChain, qIdx, retrQuery,
                   docs, chainInput, prompt, llmOut, response, answers>>
    /\ UNCHANGED installVars

\* first step of the chain: context = retrieve and format, question = input.question
Retrieve ==
    /\ program = "app" /\ pc = "retrieve"
    /\ retrQuery' = question
    /\ log' = Append(log, <<qIdx, "Retriever">>)
    /\ \/ /\ docs' = RetrieverInvoke(collection, question)
          /\ chainInput' = [context |-> FormatContext(docs'), question |-> question]
          /\ pc' = "assemble"
          /\ UNCHANGED <<thrown, rethrown>>
       \/ /\ \E o \in {"Embedder", "Store"} : QueryFail(Err(o, "network"))
          /\ UNCHANGED <<docs, chainInput>>
    /\ UNCHANGED <<program, collection, ragChain, qIdx, question, prompt, llmOut,
                   response, answers>>
    /\ UNCHANGED installVars

\* second step of the chain: promptTemplate
Assemble ==
    /\ program = "app" /\ pc = "assemble"
    /\ prompt' = FormatPrompt(chainInput)
    /\ log' = Append(log, <<qIdx, "Assembler">>)
    /\ pc' = "generate"
    /\ UNCHANGED <<program, collection, thrown, rethrown, ragChain, qIdx, question,
                   retrQuery, docs, chainInput, llmOut, response, answers>>
    /\ UNCHANGED installVars

\* third step of the chain: ollama
Generate ==
    /\ program = "app" /\ pc = "generate"
    /\ log' = Append(log, <<qIdx, "Invoker">>)
    /\ \/ /\ \E out \in ModelOutputs : llmOut' = out
          /\ pc' = "parse"
          /\ UNCHANGED <<thrown, rethrown>>
       \/ /\ \E k \in {"network", "response"} : QueryFail(Err("Invoker", k))
          /\ UNCHANGED llmOut
    /\ UNCHANGED <<program, collection, ragChain, qIdx, question, retrQuery, docs,
                   chainInput, prompt, response, answers>>
    /\ UNCHANGED installVars

\* last step of the chain, then queryRag logs the answer and returns response
ParseAndReturn ==
    /\ program = "app" /\ pc = "parse"
    /\ response' = [answer |-> ParseOutput(llmOut)]
    /\ answers' = Append(answers, response')
    /\ log' = Append(log, <<qIdx, "return">>)
    /\ qIdx' = qIdx + 1
    /\ pc' = IF qIdx = Len(Questions) THEN "done" ELSE "ready"
    /\ UNCHANGED <<program, collection, thrown, rethrown, ragChain, question,
                   retrQuery, docs, chainInput, prompt, llmOut>>
    /\ UNCHANGED installVars

NextApp ==
    \/ GetDataVectorStor \/ AppCreateRagPipeline \/ QueryRag \/ Retrieve
    \/ Assemble \/ Generate \/ ParseAndReturn

-----------------------------------------------------------------------------
(* The specification: one of the two entry points is run *)

NoResponse == [none |-> TRUE]

InitCommon ==
    /\ pc = "start"
    /\ files = <<>> /\ fileIdx = 1 /\ documents = <<>> /\ splitDocs = <<>>
    /\ vectors = <<>> /\ started = <<>>
    /\ collBefore = collection
    /\ nextId = 1 /\ runs = 1
    /\ prevRun = [outcome |-> "none", chunks |-> <<>>, count |-> 0]
    /\ thrown = NoError /\ rethrown = NoError /\ ragChain = FALSE
    /\ qIdx = 1 /\ question = <<>> /\ retrQuery = <<>> /\ docs = <<>>
    /\ chainInput = [context |-> <<>>, question |-> <<>>]
    /\ prompt = <<>> /\ llmOut = <<>> /\ response = NoResponse
    /\ answers = <<>> /\ log = <<>>

\* `bun install.ts` against a new collection and some ./book directory
InitInstall ==
    /\ program = "install"
    /\ dirListing \in Listings(MaxFiles)
    /\ collection = {}
    /\ InitCommon

\* `bun app.ts` against some existing collection
InitApp ==
    /\ program = "app"
    /\ dirListing = <<>>
    /\ collection \in SUBSET EntryUniverse
    /\ InitCommon

Init == InitInstall \/ InitApp

Next == NextInstall \/ NextApp

Spec == Init /\ [][Next]_vars

-----------------------------------------------------------------------------
(* Properties *)

Last(s) == s[Len(s)]

RECURSIVE TotalPieces(_)
\* how many pieces the contents of the documents ds have together
TotalPieces(ds) ==
    IF ds = <<>> THEN 0 ELSE Len(Head(ds).pageContent) + TotalPieces(Tail(ds))

C3_IdempotentWrite ==
    (/\ program = "install" /\ pc \in {"pipeline", "done"}
     /\ prevRun.outcome = "done" /\ prevRun.chunks = splitDocs) =>
        Cardinality(collection) = prevRun.count

RECURSIVE SplitOn(_, _)
\* the blocks of string s between the occurrences of fragment sep
SplitOn(s, sep) ==
    LET S == {i \in 1..Len(s) : s[i] = sep}
    IN IF S = {} THEN <<s>>
       ELSE LET i == CHOOSE j \in S : \A m \in S : j <= m
            IN <<SubSeq(s, 1, i - 1)>> \o SplitOn(SubSeq(s, i + 1, Len(s)), sep)

QueryAssembled == program = "app" /\ pc \in {"assemble", "generate", "parse"}

QueryPrompted == program = "app" /\ pc \in {"generate", "parse"}

\* C4: the context slot is the retrieved chunks, each as "Source: <source>\n<text>",
\* with "\n\n" between them, in retrieval order and all of them; the question slot
\* is the question as given, and that question is what the retriever was asked.
C4_PromptSlots ==
    /\ QueryAssembled =>
        /\ retrQuery = Questions[qIdx]
        /\ chainInput.question = Questions[qIdx]
        /\ docs = <<>> => chainInput.context = <<>>
        /\ docs # <<>> =>
              SplitOn(chainInput.context, "\n\n") =
                  [i \in 1..Len(docs) |->
                      <<"Source: ">> \o docs[i].metadata.source \o <<"\n">>
                          \o docs[i].pageContent]
    /\ QueryPrompted =>
          prompt = PromptTemplate[1][2] \o chainInput.context \o PromptTemplate[3][2]
                      \o Questions[qIdx] \o PromptTemplate[5][2]

\* C4 witness: a prompt was rendered from several retrieved chunks
C4_Witness == QueryPrompted /\ Len(docs) >= 2 /\ qIdx = 2

\* the number of "Source: " block headers of string s
Blocks(s) == Cardinality({i \in 1..Len(s) : s[i] = "Source: "})

\* C5: a retrieval returns at most 5 results, nearest (most similar) first, so
\* the context of a question has at most 5 chunk blocks.
C5_AtMostK ==
    QueryAssembled =>
        /\ Len(docs) <= 5
        /\ \A i \in 1..(Len(docs) - 1) :
              Distance(EmbedText(retrQuery), EmbedText(docs[i].pageContent))
                <= Distance(EmbedText(retrQuery), EmbedText(docs[i + 1].pageContent))
        /\ Blocks(chainInput.context) <= 5

\* C5 witness: the collection holds more than 5 entries and 5 were retrieved
C5_Witness ==
    QueryAssembled /\ Cardinality(collection) > 5 /\ Len(docs) = 5
        /\ Blocks(chainInput.context) = 5

\* C6: an error a stage raised ends the run and reaches the caller as the same
\* error; a run that failed in setup returned no chain, and a query that failed
\* returned no answer.
C6_ErrorsSurface ==
    /\ thrown # NoError => pc = "failed"
    /\ pc = "failed" =>
        /\ thrown # NoError
        /\ rethrown = thrown
        /\ ragChain = FALSE => answers = <<>> /\ log = <<>>
        /\ program = "install" => ragChain = FALSE
        /\ (program = "app" /\ thrown.origin = "Store" /\ log = <<>>) => ragChain = FALSE
        /\ (program = "app" /\ log # <<>>) =>
              Len(answers) = qIdx - 1 /\ Last(log)[2] # "return"

\* C6 witness: the language model failed on the second question
C6_Witness ==
    /\ program = "app" /\ pc = "failed" /\ rethrown = Err("Invoker", "network")
    /\ qIdx = 2 /\ Len(answers) = 1

\* C7: on an empty collection the retrieval has no results, the context slot is
\* the empty string, no error is raised, and the prompt given to the language
\* model is the template with an empty context and the question.
C7_EmptyCollection ==
    (program = "app" /\ collection = {}) =>
        /\ QueryAssembled => docs = <<>> /\ chainInput.context = <<>> /\ thrown = NoError
        /\ QueryPrompted =>
              prompt = PromptTemplate[1][2] \o PromptTemplate[3][2]
                          \o Questions[qIdx] \o PromptTemplate[5][2]

\* C7 witness: the language model was invoked and answered on an empty collection
C7_Witness ==
    /\ program = "app" /\ collection = {} /\ pc = "parse"
    /\ Last(log) = <<qIdx, "Invoker">>

\* the stages of one call of queryRag, in their order
QueryStages == <<"call", "Retriever", "Assembler", "Invoker", "return">>

\* the log is that of the questions taken one after another, each through its
\* stages in order
LogSequential ==
    \A i \in 1..Len(log) :
        log[i] = <<((i - 1) \div Len(QueryStages)) + 1,
                   QueryStages[((i - 1) % Len(QueryStages)) + 1]>>

\* C8: queryRag runs Retriever, Assembler, Invoker in that order and returns the
\* answer, which is the language model's output as it is, together with the
\* sources of the retrieved chunks.
C8_AnswerWithSources ==
    (program = "app" /\ response # NoResponse) =>
        /\ LogSequential
        /\ response.answer = llmOut
        /\ "sources" \in DOMAIN response
        /\ response.sources = [i \in 1..Len(docs) |-> docs[i].metadata.source]

\* name ends in ".md"
IsMd(name) ==
    /\ Len(name) >= 3
    /\ name[Len(name) - 2] = "." /\ name[Len(name) - 1] = "m" /\ name[Len(name)] = "d"

\* the documents are one per entry of the listing whose name ends in ".md", in
\* listing order, with the name as source and the path under the directory as filePath
OnePerMdEntry ==
    LET md == SelectSeq(dirListing, IsMd)
    IN /\ Len(documents) = Len(md)
       /\ \A i \in 1..Len(md) :
            /\ documents[i].metadata.source = md[i]
            /\ documents[i].metadata.filePath = <<"b", "o", "o", "k", "/">> \o md[i]

LoaderSucceeded == program = "install" /\ Len(started) >= 2

LoaderFailed == program = "install" /\ pc = "failed" /\ thrown.origin = "Loader"

NothingAfterLoader ==
    started = <<"Loader">> /\ splitDocs = <<>> /\ vectors = <<>> /\ collection = collBefore

\* C9 as stated: when the loader is over, either the directory could not be read,
\* the load failed and nothing came after it, or there is one Document per ".md" entry.
C9_AsStated ==
    (LoaderSucceeded \/ LoaderFailed) =>
        \/ OnePerMdEntry
        \/ /\ LoaderFailed
           /\ thrown.cause \in {"scandir:ENOENT", "scandir:EACCES"}
           /\ NothingAfterLoader

\* C9 amended: when the directory and every ".md" entry of it could be read, there
\* is one Document per ".md" entry, in listing order, with source the name and
\* filePath the joined path; when the directory or a ".md" entry could not be read
\* the load fails and nothing is split, embedded or written.
C9_Loader ==
    /\ LoaderSucceeded => OnePerMdEntry
    /\ LoaderFailed => NothingAfterLoader

\* C9 witness: a load that kept one entry and left another out
C9_Witness ==
    /\ LoaderSucceeded /\ Len(documents) >= 1 /\ Len(dirListing) > Len(documents)
    /\ \E i \in 1..Len(dirListing) : dirListing[i] = NameMdx

\* C10: the four questions are taken one after another in their order, each
\* through retrieval, assembly and generation before the next is issued; none is
\* issued unless setup returned the chain; after a failure no further question is
\* issued; the collection is never written.
C10_OneQuestionAtATime ==
    /\ [](program = "app" =>
            /\ LogSequential
            /\ Len(log) <= Len(QueryStages) * Len(Questions)
            /\ log # <<>> => ragChain = TRUE
            /\ (pc = "ready" \/ pc = "done") => Len(log) = Len(QueryStages) * (qIdx - 1)
            /\ collection = collBefore)
    /\ [][(program = "app" /\ pc = "failed") => log' = log]_vars

\* C10 witness: all four questions were answered
C10_Witness == program = "app" /\ pc = "done" /\ Len(answers) = 4 /\ collection # {}

====
